---------------------------- MODULE Spec2Model ----------------------------
(***************************************************************************)
(* A model of three components of unison-ns3-rdma:                         *)
(*                                                                         *)
(*   - ns3::Node (src/network/model/node.cc): the devices, protocol        *)
(*     handlers and device-addition listeners of a node and the dispatch   *)
(*     of received packets to the handlers;                                *)
(*   - ns3::IntHop / ns3::IntHeader (src/network/utils/int-header.h): the  *)
(*     bit-packed in-band telemetry header and its wire codec;             *)
(*   - ns3::PropagationCache (in src/network/model/node.cc): the cache of  *)
(*     per-path objects keyed by two mobility models and a model uid.      *)
(*                                                                         *)
(* Callbacks (protocol handlers, listeners) are opaque: the model records  *)
(* each invocation in a log and the callback itself changes nothing.       *)
(* Every operation overwrites the log, so the log always describes the     *)
(* most recent operation only.                                             *)
(***************************************************************************)
EXTENDS Integers, Sequences, FiniteSets, TLC

VARIABLES
    \* ---- ns3::Node ----
    m_devices,                  \* std::vector<Ptr<NetDevice>>
    m_handlers,                 \* ProtocolHandlerList
    m_deviceAdditionListeners,  \* DeviceAdditionListenerList
    devNode,                    \* NetDevice: node set by SetNode
    devIfIndex,                 \* NetDevice: index set by SetIfIndex (-1: never set)
    devRxCb,                    \* NetDevice: callback set by SetReceiveCallback
    devPromiscCb,               \* NetDevice: callback set by SetPromiscReceiveCallback
    events,                     \* Simulator: events scheduled and not yet run
    aborted,                    \* the process was ended by a failed NS_ASSERT_MSG
    lastOp,                     \* log: the most recent operation and its arguments
    handlerCalls,               \* log: handler invocations made by the last operation
    listenerCalls,              \* log: listener invocations made by the last operation
    m_applications,             \* std::vector<Ptr<Application>>
    appNode,                    \* Application: node set by SetNode
    m_initialized,              \* Object: DoInitialize has run (per device, application)
    m_disposed,                 \* Object: Dispose was called (per device, application)
    disposed,                   \* Node::DoDispose has run on this node
    lifecycleCalls,             \* log: Initialize()/Dispose() calls made by the last operation
    objRet,                     \* log: the object the last operation was given or returned
    addLog,                     \* history: every AddDevice/AddApplication call and its result
    initCount,                  \* history: per object, how often its DoInitialize has run
    \* ---- ns3::IntHop / ns3::IntHeader ----
    mode,                       \* static IntHeader::mode
    pint_bytes,                 \* static IntHeader::pint_bytes
    multi,                      \* static IntHop::multi
    hdr,                        \* the bytes of an IntHeader object (the sender's)
    buffer,                     \* the bytes Serialize wrote through the Buffer::Iterator
    rx,                         \* the bytes of the IntHeader object Deserialize fills
    pc,                         \* "build", "sent" (serialized), "received" (deserialized)
    pushCount,                  \* history: number of PushHop calls made on hdr
    ring,                       \* history: per ring slot, the last PushHop call aimed at it
    codecOp,                    \* log: the most recent codec operation
    \* ---- ns3::PropagationCache ----
    m_pathCache,                \* PathCache: the entries in the order of the map
    cacheOp,                    \* log: the most recent cache operation and its result
    pathDisposeCalls,           \* log: Dispose() calls made by the last cache operation
    pathAdded                   \* history: AddPathData calls inserted since the last Cleanup

nodeVars == <<m_devices, m_handlers, m_deviceAdditionListeners, devNode, devIfIndex,
              devRxCb, devPromiscCb, events, aborted>>
logVars == <<lastOp, handlerCalls, listenerCalls>>
lifeVars == <<m_applications, appNode, m_initialized, m_disposed, disposed,
              lifecycleCalls, objRet, addLog, initCount>>
codecVars == <<mode, pint_bytes, multi, hdr, buffer, rx, pc, pushCount, ring, codecOp>>
cacheVars == <<m_pathCache, cacheOp, pathDisposeCalls, pathAdded>>
vars == <<nodeVars, logVars, lifeVars, codecVars, cacheVars>>

--------------------------------------------------------------------------
(* Bounds and input sets of the node model *)

MaxHandlers == 2
MaxListeners == 3

AllDevices == {"d1", "d2", "d3"}
DispatchDevices == {"d1", "d2"}
NoDevice == "null"              \* a null Ptr<NetDevice>
Handlers == {"h1", "h2"}
Listeners == {"l1", "l2"}
FilterProtocols == {0, 2048}    \* 0 is the wildcard
FilterDevices == {NoDevice, "d1"}
PacketProtocols == {2048, 2054}
m_id == "node0"                 \* this node's id, from NodeList::Add
Contexts == {m_id, "node1"}     \* values Simulator::GetContext() may return
Applications == {"a1", "a2"}
LifeDevices == {"d1", "d2"}
Objects == AllDevices \cup Applications
MaxAdds == 3                    \* AddDevice and AddApplication calls in one run
UnknownHandler == "h3"          \* a handler that is never registered
UnknownListener == "l3"         \* a listener that is never registered

NoOp == [op |-> "none", device |-> NoDevice, protocol |-> 0, promiscuous |-> FALSE,
         callback |-> "none", context |-> m_id, ret |-> 0]

Range(s) == {s[i] : i \in 1..Len(s)}

--------------------------------------------------------------------------
(* ns3::Node *)

\* One pass of the loop of Node::NotifyDeviceAdded over listeners[i..]: each
\* listener is called with the device; the log keeps what the listener could
\* observe of the node at that moment.
RECURSIVE NotifyLoop(_, _, _, _, _, _)
NotifyLoop(listeners, i, device, devices, ifIndex, acc) ==
    IF i > Len(listeners) THEN acc
    ELSE NotifyLoop(listeners, i + 1, device, devices, ifIndex,
                    Append(acc, [listener |-> listeners[i], device |-> device,
                                 attached |-> device \in Range(devices),
                                 ifIndex |-> ifIndex[device]]))

NotifyDeviceAdded(listeners, device, devices, ifIndex) ==
    NotifyLoop(listeners, 1, device, devices, ifIndex, <<>>)

\* Mutant of AddDevice: the listeners are notified before the device is
\* appended and given its index.
AddDevice_NotifyFirst(device) ==
    /\ ~aborted
    /\ device \notin Range(m_devices)
    /\ LET index == Len(m_devices)
       IN  /\ listenerCalls' = NotifyDeviceAdded(m_deviceAdditionListeners, device,
                                                 m_devices, devIfIndex)
           /\ m_devices' = Append(m_devices, device)
           /\ devNode' = [devNode EXCEPT ![device] = m_id]
           /\ devIfIndex' = [devIfIndex EXCEPT ![device] = index]
           /\ devRxCb' = [devRxCb EXCEPT ![device] = "NonPromiscReceiveFromDevice"]
           /\ events' = Append(events, [context |-> m_id, delay |-> 0,
                                        method |-> "NetDevice::Initialize",
                                        object |-> device])
           /\ handlerCalls' = <<>>
           /\ lastOp' = [NoOp EXCEPT !.op = "AddDevice", !.device = device,
                                     !.ret = index]
    /\ UNCHANGED <<m_handlers, m_deviceAdditionListeners, devPromiscCb, aborted>>

\* Mutant of AddDevice: the initialization is scheduled without a context.
AddDevice_NoContext(device) ==
    /\ ~aborted
    /\ device \notin Range(m_devices)
    /\ LET index == Len(m_devices)
           devices1 == Append(m_devices, device)
           ifIndex1 == [devIfIndex EXCEPT ![device] = index]
       IN  /\ m_devices' = devices1
           /\ devNode' = [devNode EXCEPT ![device] = m_id]
           /\ devIfIndex' = ifIndex1
           /\ devRxCb' = [devRxCb EXCEPT ![device] = "NonPromiscReceiveFromDevice"]
           /\ events' = Append(events, [context |-> "none", delay |-> 0,
                                        method |-> "NetDevice::Initialize",
                                        object |-> device])
           /\ listenerCalls' = NotifyDeviceAdded(m_deviceAdditionListeners, device,
                                                 devices1, ifIndex1)
           /\ handlerCalls' = <<>>
           /\ lastOp' = [NoOp EXCEPT !.op = "AddDevice", !.device = device,
                                     !.ret = index]
    /\ UNCHANGED <<m_handlers, m_deviceAdditionListeners, devPromiscCb, aborted>>

\* Mutant of AddDevice: a new device is armed for promiscuous delivery when
\* a promiscuous handler without a device filter is registered.
AddDevice_Rearm(device) ==
    /\ ~aborted
    /\ device \notin Range(m_devices)
    /\ LET index == Len(m_devices)
           devices1 == Append(m_devices, device)
           ifIndex1 == [devIfIndex EXCEPT ![device] = index]
       IN  /\ m_devices' = devices1
           /\ devNode' = [devNode EXCEPT ![device] = m_id]
           /\ devIfIndex' = ifIndex1
           /\ devRxCb' = [devRxCb EXCEPT ![device] = "NonPromiscReceiveFromDevice"]
           /\ devPromiscCb' =
                  IF \E i \in 1..Len(m_handlers) :
                        m_handlers[i].promiscuous /\ m_handlers[i].device = NoDevice
                  THEN [devPromiscCb EXCEPT ![device] = "PromiscReceiveFromDevice"]
                  ELSE devPromiscCb
           /\ events' = Append(events, [context |-> m_id, delay |-> 0,
                                        method |-> "NetDevice::Initialize",
                                        object |-> device])
           /\ listenerCalls' = NotifyDeviceAdded(m_deviceAdditionListeners, device,
                                                 devices1, ifIndex1)
           /\ handlerCalls' = <<>>
           /\ lastOp' = [NoOp EXCEPT !.op = "AddDevice", !.device = device,
                                     !.ret = index]
    /\ UNCHANGED <<m_handlers, m_deviceAdditionListeners, aborted>>

AddDevice(device) ==
    /\ ~aborted
    /\ device \notin Range(m_devices)
    /\ LET index == Len(m_devices)
           devices1 == Append(m_devices, device)
           ifIndex1 == [devIfIndex EXCEPT ![device] = index]
       IN  /\ m_devices' = devices1
           /\ devNode' = [devNode EXCEPT ![device] = m_id]
           /\ devIfIndex' = ifIndex1
           /\ devRxCb' = [devRxCb EXCEPT ![device] = "NonPromiscReceiveFromDevice"]
           /\ events' = Append(events, [context |-> m_id, delay |-> 0,
                                        method |-> "NetDevice::Initialize",
                                        object |-> device])
           /\ listenerCalls' = NotifyDeviceAdded(m_deviceAdditionListeners, device,
                                                 devices1, ifIndex1)
           /\ handlerCalls' = <<>>
           /\ lastOp' = [NoOp EXCEPT !.op = "AddDevice", !.device = device,
                                     !.ret = index]
    /\ UNCHANGED <<m_handlers, m_deviceAdditionListeners, devPromiscCb, aborted>>

\* The promiscuous receive callback RegisterProtocolHandler installs on demand.
InstallPromisc(promiscCb, devices, device) ==
    IF device = NoDevice
    THEN [d \in DOMAIN promiscCb |->
            IF d \in Range(devices) THEN "PromiscReceiveFromDevice" ELSE promiscCb[d]]
    ELSE [promiscCb EXCEPT ![device] = "PromiscReceiveFromDevice"]

RegisterProtocolHandler(handler, protocolType, device, promiscuous) ==
    /\ ~aborted
    /\ Len(m_handlers) < MaxHandlers
    /\ LET entry == [handler |-> handler, protocol |-> protocolType,
                     device |-> device, promiscuous |-> promiscuous]
       IN  /\ devPromiscCb' = IF promiscuous
                              THEN InstallPromisc(devPromiscCb, m_devices, device)
                              ELSE devPromiscCb
           /\ m_handlers' = Append(m_handlers, entry)
    /\ lastOp' = [NoOp EXCEPT !.op = "RegisterProtocolHandler", !.callback = handler,
                              !.protocol = protocolType, !.device = device,
                              !.promiscuous = promiscuous]
    /\ handlerCalls' = <<>>
    /\ listenerCalls' = <<>>
    /\ UNCHANGED <<m_devices, m_deviceAdditionListeners, devNode, devIfIndex, devRxCb,
                   events, aborted>>

\* Mutant of EraseHandlerFrom: every entry with the given handler is erased.
RECURSIVE EraseHandlerFrom_All(_, _, _)
EraseHandlerFrom_All(handlers, i, handler) ==
    IF i > Len(handlers) THEN handlers
    ELSE IF handlers[i].handler = handler
         THEN EraseHandlerFrom_All(SubSeq(handlers, 1, i - 1)
                                   \o SubSeq(handlers, i + 1, Len(handlers)),
                                   i, handler)
         ELSE EraseHandlerFrom_All(handlers, i + 1, handler)

\* The loop of Node::UnregisterProtocolHandler from entry i on: erase the first
\* entry whose handler IsEqual to the given one, then break.
RECURSIVE EraseHandlerFrom(_, _, _)
EraseHandlerFrom(handlers, i, handler) ==
    IF i > Len(handlers) THEN handlers
    ELSE IF handlers[i].handler = handler
         THEN SubSeq(handlers, 1, i - 1) \o SubSeq(handlers, i + 1, Len(handlers))
         ELSE EraseHandlerFrom(handlers, i + 1, handler)

\* Mutant of UnregisterProtocolHandler: when no promiscuous entry is left, the
\* promiscuous receive callback is taken off every device.
UnregisterProtocolHandler_Disarm(handler) ==
    /\ ~aborted
    /\ LET handlers1 == EraseHandlerFrom(m_handlers, 1, handler)
       IN  /\ m_handlers' = handlers1
           /\ devPromiscCb' =
                  IF \E i \in 1..Len(handlers1) : handlers1[i].promiscuous
                  THEN devPromiscCb
                  ELSE [d \in AllDevices |-> "null"]
    /\ lastOp' = [NoOp EXCEPT !.op = "UnregisterProtocolHandler", !.callback = handler]
    /\ handlerCalls' = <<>>
    /\ listenerCalls' = <<>>
    /\ UNCHANGED <<m_devices, m_deviceAdditionListeners, devNode, devIfIndex, devRxCb,
                   events, aborted>>

UnregisterProtocolHandler(handler) ==
    /\ ~aborted
    /\ m_handlers' = EraseHandlerFrom(m_handlers, 1, handler)
    /\ lastOp' = [NoOp EXCEPT !.op = "UnregisterProtocolHandler", !.callback = handler]
    /\ handlerCalls' = <<>>
    /\ listenerCalls' = <<>>
    /\ UNCHANGED <<m_devices, m_deviceAdditionListeners, devNode, devIfIndex, devRxCb,
                   devPromiscCb, events, aborted>>

\* Mutant of EntryMatches: the promiscuous flag of the entry is not compared.
EntryMatches_AnyPath(entry, device, protocol, promiscuous) ==
    /\ entry.device = NoDevice \/ entry.device = device
    /\ entry.protocol = 0 \/ entry.protocol = protocol

\* The three nested conditions of the loop body of Node::ReceiveFromDevice.
EntryMatches(entry, device, protocol, promiscuous) ==
    IF entry.device = NoDevice \/ entry.device = device
    THEN IF entry.protocol = 0 \/ entry.protocol = protocol
         THEN promiscuous = entry.promiscuous
         ELSE FALSE
    ELSE FALSE

\* Mutant of ReceiveLoop: the loop stops after the first matching entry.
RECURSIVE ReceiveLoop_StopAtFirst(_, _, _, _, _, _)
ReceiveLoop_StopAtFirst(handlers, i, device, protocol, promiscuous, acc) ==
    IF i > Len(handlers) THEN acc
    ELSE IF EntryMatches(handlers[i], device, protocol, promiscuous)
         THEN [calls |-> Append(acc.calls,
                                [entry |-> i, handler |-> handlers[i].handler,
                                 device |-> device, protocol |-> protocol]),
               found |-> TRUE]
         ELSE ReceiveLoop_StopAtFirst(handlers, i + 1, device, protocol, promiscuous,
                                      acc)

\* The loop of Node::ReceiveFromDevice from entry i on.  acc.calls logs each
\* handler invocation (the position of its entry and the arguments it got).
RECURSIVE ReceiveLoop(_, _, _, _, _, _)
ReceiveLoop(handlers, i, device, protocol, promiscuous, acc) ==
    IF i > Len(handlers) THEN acc
    ELSE ReceiveLoop(handlers, i + 1, device, protocol, promiscuous,
            IF EntryMatches(handlers[i], device, protocol, promiscuous)
            THEN [calls |-> Append(acc.calls,
                                   [entry |-> i, handler |-> handlers[i].handler,
                                    device |-> device, protocol |-> protocol]),
                  found |-> TRUE]
            ELSE acc)

\* NS_ASSERT_MSG(condition, message): execution continues iff the condition
\* holds; otherwise the process is ended.
NS_ASSERT_MSG(condition) == condition

\* Mutant of ReceiveFromDevice: the context is not compared with the node's id.
ReceiveFromDevice_NoContextCheck(device, protocol, promiscuous, context, entryPoint) ==
    /\ ~aborted
    /\ LET r == ReceiveLoop(m_handlers, 1, device, protocol, promiscuous,
                            [calls |-> <<>>, found |-> FALSE])
       IN  /\ handlerCalls' = r.calls
           /\ lastOp' = [NoOp EXCEPT !.op = entryPoint, !.device = device,
                                     !.protocol = protocol,
                                     !.promiscuous = promiscuous,
                                     !.context = context,
                                     !.ret = IF r.found THEN 1 ELSE 0]
    /\ listenerCalls' = <<>>
    /\ UNCHANGED <<m_devices, m_handlers, m_deviceAdditionListeners, devNode,
                   devIfIndex, devRxCb, devPromiscCb, events, aborted>>

\* Node::ReceiveFromDevice run while Simulator::GetContext() returns context.
ReceiveFromDevice(device, protocol, promiscuous, context, entryPoint) ==
    /\ ~aborted
    /\ IF NS_ASSERT_MSG(context = m_id)
       THEN LET r == ReceiveLoop(m_handlers, 1, device, protocol, promiscuous,
                                 [calls |-> <<>>, found |-> FALSE])
            IN  /\ handlerCalls' = r.calls
                /\ lastOp' = [NoOp EXCEPT !.op = entryPoint, !.device = device,
                                          !.protocol = protocol,
                                          !.promiscuous = promiscuous,
                                          !.context = context,
                                          !.ret = IF r.found THEN 1 ELSE 0]
                /\ UNCHANGED aborted
       ELSE /\ aborted' = TRUE
            /\ handlerCalls' = <<>>
            /\ lastOp' = [NoOp EXCEPT !.op = entryPoint, !.device = device,
                                      !.protocol = protocol,
                                      !.promiscuous = promiscuous,
                                      !.context = context, !.ret = -1]
    /\ listenerCalls' = <<>>
    /\ UNCHANGED <<m_devices, m_handlers, m_deviceAdditionListeners, devNode,
                   devIfIndex, devRxCb, devPromiscCb, events>>

\* A device delivers a packet through the callback AddDevice installed on it.
NonPromiscReceiveFromDevice(device, protocol, context) ==
    /\ devRxCb[device] = "NonPromiscReceiveFromDevice"
    /\ ReceiveFromDevice(device, protocol, FALSE, context,
                         "NonPromiscReceiveFromDevice")

\* A device delivers a packet through the callback a promiscuous registration
\* installed on it.
PromiscReceiveFromDevice(device, protocol, context) ==
    /\ devPromiscCb[device] = "PromiscReceiveFromDevice"
    /\ ReceiveFromDevice(device, protocol, TRUE, context, "PromiscReceiveFromDevice")

\* Mutant of ReplayLoop: the devices are replayed from the newest to the oldest.
RECURSIVE ReplayLoop_NewestFirst(_, _, _, _, _)
ReplayLoop_NewestFirst(listener, devices, i, ifIndex, acc) ==
    IF i > Len(devices) THEN acc
    ELSE ReplayLoop_NewestFirst(listener, devices, i + 1, ifIndex,
              <<[listener |-> listener, device |-> devices[i],
                 attached |-> TRUE, ifIndex |-> ifIndex[devices[i]]]>> \o acc)

\* The replay loop of Node::RegisterDeviceAdditionListener from device i on.
RECURSIVE ReplayLoop(_, _, _, _, _)
ReplayLoop(listener, devices, i, ifIndex, acc) ==
    IF i > Len(devices) THEN acc
    ELSE ReplayLoop(listener, devices, i + 1, ifIndex,
                    Append(acc, [listener |-> listener, device |-> devices[i],
                                 attached |-> TRUE, ifIndex |-> ifIndex[devices[i]]]))

RegisterDeviceAdditionListener(listener) ==
    /\ ~aborted
    /\ Len(m_deviceAdditionListeners) < MaxListeners
    /\ m_deviceAdditionListeners' = Append(m_deviceAdditionListeners, listener)
    /\ listenerCalls' = ReplayLoop(listener, m_devices, 1, devIfIndex, <<>>)
    /\ lastOp' = [NoOp EXCEPT !.op = "RegisterDeviceAdditionListener",
                              !.callback = listener]
    /\ handlerCalls' = <<>>
    /\ UNCHANGED <<m_devices, m_handlers, devNode, devIfIndex, devRxCb, devPromiscCb,
                   events, aborted>>

\* The loop of Node::UnregisterDeviceAdditionListener from listener i on: erase
\* the first listener that IsEqual to the given one, then break.
RECURSIVE EraseListenerFrom(_, _, _)
EraseListenerFrom(listeners, i, listener) ==
    IF i > Len(listeners) THEN listeners
    ELSE IF listeners[i] = listener
         THEN SubSeq(listeners, 1, i - 1) \o SubSeq(listeners, i + 1, Len(listeners))
         ELSE EraseListenerFrom(listeners, i + 1, listener)

UnregisterDeviceAdditionListener(listener) ==
    /\ ~aborted
    /\ m_deviceAdditionListeners' =
           EraseListenerFrom(m_deviceAdditionListeners, 1, listener)
    /\ lastOp' = [NoOp EXCEPT !.op = "UnregisterDeviceAdditionListener",
                              !.callback = listener]
    /\ handlerCalls' = <<>>
    /\ listenerCalls' = <<>>
    /\ UNCHANGED <<m_devices, m_handlers, devNode, devIfIndex, devRxCb, devPromiscCb,
                   events, aborted>>

--------------------------------------------------------------------------
(* ns3::Node: applications, initialization and disposal *)

\* What every operation of the node that starts or ends no object leaves.
NoLifecycle ==
    /\ lifecycleCalls' = <<>>
    /\ UNCHANGED <<m_applications, appNode, m_initialized, m_disposed, disposed,
                   initCount>>

\* Mutant of AddApplication: the index is read after the push_back.
AddApplication_IndexAfterPush(application) ==
    /\ ~aborted
    /\ application \notin Range(m_applications)
    /\ LET index == Len(Append(m_applications, application))
       IN  /\ m_applications' = Append(m_applications, application)
           /\ appNode' = [appNode EXCEPT ![application] = m_id]
           /\ events' = Append(events, [context |-> m_id, delay |-> 0,
                                        method |-> "Application::Initialize",
                                        object |-> application])
           /\ lastOp' = [NoOp EXCEPT !.op = "AddApplication", !.ret = index]
    /\ objRet' = application
    /\ handlerCalls' = <<>>
    /\ listenerCalls' = <<>>
    /\ lifecycleCalls' = <<>>
    /\ UNCHANGED <<m_devices, m_handlers, m_deviceAdditionListeners, devNode,
                   devIfIndex, devRxCb, devPromiscCb, aborted, m_initialized,
                   m_disposed, disposed, initCount>>

AddApplication(application) ==
    /\ ~aborted
    /\ application \notin Range(m_applications)
    /\ LET index == Len(m_applications)
       IN  /\ m_applications' = Append(m_applications, application)
           /\ appNode' = [appNode EXCEPT ![application] = m_id]
           /\ events' = Append(events, [context |-> m_id, delay |-> 0,
                                        method |-> "Application::Initialize",
                                        object |-> application])
           /\ lastOp' = [NoOp EXCEPT !.op = "AddApplication", !.ret = index]
    /\ objRet' = application
    /\ handlerCalls' = <<>>
    /\ listenerCalls' = <<>>
    /\ lifecycleCalls' = <<>>
    /\ UNCHANGED <<m_devices, m_handlers, m_deviceAdditionListeners, devNode,
                   devIfIndex, devRxCb, devPromiscCb, aborted, m_initialized,
                   m_disposed, disposed, initCount>>

\* Node::GetDevice(index); lastOp.ret is the index asked for, objRet the
\* device returned.
GetDevice(index) ==
    /\ ~aborted
    /\ IF NS_ASSERT_MSG(index < Len(m_devices))
       THEN /\ objRet' = m_devices[index + 1]
            /\ UNCHANGED aborted
       ELSE /\ objRet' = "null"
            /\ aborted' = TRUE
    /\ lastOp' = [NoOp EXCEPT !.op = "GetDevice", !.ret = index]
    /\ handlerCalls' = <<>>
    /\ listenerCalls' = <<>>
    /\ NoLifecycle
    /\ UNCHANGED <<m_devices, m_handlers, m_deviceAdditionListeners, devNode,
                   devIfIndex, devRxCb, devPromiscCb, events>>

\* Node::GetApplication(index).
GetApplication(index) ==
    /\ ~aborted
    /\ IF NS_ASSERT_MSG(index < Len(m_applications))
       THEN /\ objRet' = m_applications[index + 1]
            /\ UNCHANGED aborted
       ELSE /\ objRet' = "null"
            /\ aborted' = TRUE
    /\ lastOp' = [NoOp EXCEPT !.op = "GetApplication", !.ret = index]
    /\ handlerCalls' = <<>>
    /\ listenerCalls' = <<>>
    /\ NoLifecycle
    /\ UNCHANGED <<m_devices, m_handlers, m_deviceAdditionListeners, devNode,
                   devIfIndex, devRxCb, devPromiscCb, events>>

\* The objects' side of initialization and disposal, threaded through the
\* loops: which objects are initialized and disposed, how often each one's
\* DoInitialize ran, and the calls made so far with the sizes the handler and
\* listener tables had when each call was made.
LifeState ==
    [initialized |-> m_initialized, disposedObjs |-> m_disposed,
     count |-> initCount, calls |-> <<>>]

LifeCall(method, object, handlers, listeners) ==
    [method |-> method, object |-> object, handlers |-> Len(handlers),
     listeners |-> Len(listeners)]

\* Object::Initialize() on a device or application: its DoInitialize runs
\* unless it has run before.
ObjectInitialize(st, object) ==
    IF st.initialized[object] THEN st
    ELSE [st EXCEPT !.initialized[object] = TRUE, !.count[object] = @ + 1]

\* Object::Dispose() on a device or application.
ObjectDispose(st, object) == [st EXCEPT !.disposedObjs[object] = TRUE]

\* A loop of Node::DoInitialize over objs[i..]: Initialize() on each.
RECURSIVE InitializeEach(_, _, _, _, _)
InitializeEach(objs, i, st, handlers, listeners) ==
    IF i > Len(objs) THEN st
    ELSE InitializeEach(objs, i + 1,
             [ObjectInitialize(st, objs[i]) EXCEPT
                 !.calls = Append(@, LifeCall("Initialize", objs[i], handlers,
                                              listeners))],
             handlers, listeners)

\* A loop of Node::DoDispose over objs[i..]: Dispose() on each.
RECURSIVE DisposeEach(_, _, _, _, _)
DisposeEach(objs, i, st, handlers, listeners) ==
    IF i > Len(objs) THEN st
    ELSE DisposeEach(objs, i + 1,
             [ObjectDispose(st, objs[i]) EXCEPT
                 !.calls = Append(@, LifeCall("Dispose", objs[i], handlers,
                                              listeners))],
             handlers, listeners)

\* Mutant of InitializeAll: the applications are initialized before the devices.
InitializeAll_ApplicationsFirst(st) ==
    InitializeEach(m_devices, 1,
        InitializeEach(m_applications, 1, st, m_handlers, m_deviceAdditionListeners),
        m_handlers, m_deviceAdditionListeners)

\* The two loops of Node::DoInitialize.
InitializeAll(st) ==
    InitializeEach(m_applications, 1,
        InitializeEach(m_devices, 1, st, m_handlers, m_deviceAdditionListeners),
        m_handlers, m_deviceAdditionListeners)

\* Node::DoInitialize, which Initialize() on the node runs.
DoInitialize ==
    /\ ~aborted
    /\ LET st == InitializeAll(LifeState)
       IN  /\ m_initialized' = st.initialized
           /\ initCount' = st.count
           /\ lifecycleCalls' = st.calls
    /\ lastOp' = [NoOp EXCEPT !.op = "Initialize"]
    /\ objRet' = "null"
    /\ handlerCalls' = <<>>
    /\ listenerCalls' = <<>>
    /\ UNCHANGED <<nodeVars, m_applications, appNode, m_disposed, disposed, addLog>>

\* Mutant of DoDispose: the two tables are cleared after the objects are
\* disposed.
DoDispose_TablesLast ==
    /\ ~aborted
    /\ LET st1 == DisposeEach(m_devices, 1, LifeState, m_handlers,
                              m_deviceAdditionListeners)
           st2 == DisposeEach(m_applications, 1, st1, m_handlers,
                              m_deviceAdditionListeners)
       IN  /\ m_deviceAdditionListeners' = <<>>
           /\ m_handlers' = <<>>
           /\ m_devices' = <<>>
           /\ m_applications' = <<>>
           /\ m_disposed' = st2.disposedObjs
           /\ lifecycleCalls' = st2.calls
    /\ disposed' = TRUE
    /\ lastOp' = [NoOp EXCEPT !.op = "Dispose"]
    /\ objRet' = "null"
    /\ handlerCalls' = <<>>
    /\ listenerCalls' = <<>>
    /\ UNCHANGED <<devNode, devIfIndex, devRxCb, devPromiscCb, events, aborted,
                   appNode, m_initialized, initCount, addLog>>

\* Node::DoDispose, which Dispose() on the node runs.
DoDispose ==
    /\ ~aborted
    /\ LET listeners1 == <<>>
           handlers1 == <<>>
           st1 == DisposeEach(m_devices, 1, LifeState, handlers1, listeners1)
           devices1 == <<>>
           st2 == DisposeEach(m_applications, 1, st1, handlers1, listeners1)
           applications1 == <<>>
       IN  /\ m_deviceAdditionListeners' = listeners1
           /\ m_handlers' = handlers1
           /\ m_devices' = devices1
           /\ m_applications' = applications1
           /\ m_disposed' = st2.disposedObjs
           /\ lifecycleCalls' = st2.calls
    /\ disposed' = TRUE
    /\ lastOp' = [NoOp EXCEPT !.op = "Dispose"]
    /\ objRet' = "null"
    /\ handlerCalls' = <<>>
    /\ listenerCalls' = <<>>
    /\ UNCHANGED <<devNode, devIfIndex, devRxCb, devPromiscCb, events, aborted,
                   appNode, m_initialized, initCount, addLog>>

\* The simulator runs the earliest scheduled event: Initialize() on the
\* event's object, in the event's context.
RunEvent ==
    /\ ~aborted
    /\ events # <<>>
    /\ LET ev == Head(events)
           st == ObjectInitialize(LifeState, ev.object)
       IN  /\ m_initialized' = st.initialized
           /\ initCount' = st.count
           /\ lastOp' = [NoOp EXCEPT !.op = "RunEvent", !.context = ev.context]
           /\ objRet' = ev.object
    /\ events' = Tail(events)
    /\ lifecycleCalls' = <<>>
    /\ handlerCalls' = <<>>
    /\ listenerCalls' = <<>>
    /\ UNCHANGED <<m_devices, m_handlers, m_deviceAdditionListeners, devNode,
                   devIfIndex, devRxCb, devPromiscCb, aborted, m_applications,
                   appNode, m_disposed, disposed, addLog>>

--------------------------------------------------------------------------
(* ns3::PropagationCache<T> *)

MaxPaths == 4                   \* entries the cache is filled with

MobilityModels == {1, 2}        \* addresses of the MobilityModel objects
ModelUids == {0, 1}
PathData == {"p1", "p2"}        \* the Ptr<T> objects stored in the cache
NullData == "null"              \* a null Ptr<T>

NoCacheOp == [op |-> "none", a |-> 0, b |-> 0, modelUid |-> 0, data |-> NullData,
              ret |-> NullData]

\* operator< of Ptr<const MobilityModel>: the order of the addresses.
PtrLess(x, y) == x < y

\* std::min and std::max of two Ptr, by operator<.
StdMin(x, y) == IF PtrLess(y, x) THEN y ELSE x
StdMax(x, y) == IF PtrLess(x, y) THEN y ELSE x

PropagationPathIdentifier(a, b, modelUid) ==
    [m_srcMobility |-> a, m_dstMobility |-> b, m_spectrumModelUid |-> modelUid]

\* Mutant of OperatorLess: source is compared with source and destination with
\* destination.
OperatorLess_Directed(this, other) ==
    IF this.m_spectrumModelUid # other.m_spectrumModelUid
    THEN this.m_spectrumModelUid < other.m_spectrumModelUid
    ELSE IF this.m_srcMobility # other.m_srcMobility
         THEN PtrLess(this.m_srcMobility, other.m_srcMobility)
         ELSE IF this.m_dstMobility # other.m_dstMobility
              THEN PtrLess(this.m_dstMobility, other.m_dstMobility)
              ELSE FALSE

\* PropagationPathIdentifier::operator<
OperatorLess(this, other) ==
    IF this.m_spectrumModelUid # other.m_spectrumModelUid
    THEN this.m_spectrumModelUid < other.m_spectrumModelUid
    ELSE IF StdMin(this.m_dstMobility, this.m_srcMobility) #
            StdMin(other.m_dstMobility, other.m_srcMobility)
         THEN PtrLess(StdMin(this.m_dstMobility, this.m_srcMobility),
                      StdMin(other.m_dstMobility, other.m_srcMobility))
         ELSE IF StdMax(this.m_dstMobility, this.m_srcMobility) #
                 StdMax(other.m_dstMobility, other.m_srcMobility)
              THEN PtrLess(StdMax(this.m_dstMobility, this.m_srcMobility),
                           StdMax(other.m_dstMobility, other.m_srcMobility))
              ELSE FALSE

\* std::map: the position, from i on, of the first entry whose key is not
\* less than key (Len + 1: there is none).
RECURSIVE LowerBound(_, _, _)
LowerBound(cache, key, i) ==
    IF i > Len(cache) THEN i
    ELSE IF OperatorLess(cache[i].key, key)
         THEN LowerBound(cache, key, i + 1)
         ELSE i

\* m_pathCache.find(key): the position of the entry whose key is neither less
\* nor greater than key; 0 stands for end().
MapFind(cache, key) ==
    LET i == LowerBound(cache, key, 1)
    IN  IF i <= Len(cache) /\ ~OperatorLess(key, cache[i].key) THEN i ELSE 0

\* m_pathCache.insert(std::make_pair(key, data)): nothing is inserted when
\* the map holds an equivalent key.
MapInsert(cache, key, data) ==
    IF MapFind(cache, key) # 0 THEN cache
    ELSE LET i == LowerBound(cache, key, 1)
         IN  SubSeq(cache, 1, i - 1) \o <<[key |-> key, data |-> data]>>
                 \o SubSeq(cache, i, Len(cache))

\* NS_ASSERT(condition): execution continues iff the condition holds;
\* otherwise the process is ended.
NS_ASSERT(condition) == condition

GetPathData(a, b, modelUid) ==
    /\ ~aborted
    /\ LET key == PropagationPathIdentifier(a, b, modelUid)
           it == MapFind(m_pathCache, key)
       IN  cacheOp' = [NoCacheOp EXCEPT !.op = "GetPathData", !.a = a, !.b = b,
                                        !.modelUid = modelUid,
                                        !.ret = IF it = 0 THEN NullData
                                                ELSE m_pathCache[it].data]
    /\ pathDisposeCalls' = <<>>
    /\ UNCHANGED <<m_pathCache, pathAdded, aborted>>

AddPathData(data, a, b, modelUid) ==
    /\ ~aborted
    /\ LET key == PropagationPathIdentifier(a, b, modelUid)
       IN  IF NS_ASSERT(MapFind(m_pathCache, key) = 0)
           THEN /\ m_pathCache' = MapInsert(m_pathCache, key, data)
                /\ pathAdded' = pathAdded \cup
                       {[a |-> a, b |-> b, modelUid |-> modelUid, data |-> data]}
                /\ UNCHANGED aborted
           ELSE /\ aborted' = TRUE
                /\ UNCHANGED <<m_pathCache, pathAdded>>
    /\ cacheOp' = [NoCacheOp EXCEPT !.op = "AddPathData", !.a = a, !.b = b,
                                    !.modelUid = modelUid, !.data = data]
    /\ pathDisposeCalls' = <<>>

Cleanup ==
    /\ ~aborted
    /\ pathDisposeCalls' = [i \in 1..Len(m_pathCache) |-> m_pathCache[i].data]
    /\ m_pathCache' = <<>>
    /\ pathAdded' = {}
    /\ cacheOp' = [NoCacheOp EXCEPT !.op = "Cleanup"]
    /\ UNCHANGED aborted

--------------------------------------------------------------------------
(* Constants and numeric representation of the telemetry codec *)

timeWidth == 24
bytesWidth == 20
qlenWidth == 17
lineRateWidth == 64 - timeWidth - bytesWidth - qlenWidth
byteUnit == 128
qlenUnit == 80
maxHop == 5

\* Object sizes and member offsets in bytes (no padding inside IntHeader_t).
SizeofIntHop == 8
SizeofNhop == 2
SizeofTs == 8
SizeofPint == 2
SizeofHops == maxHop * SizeofIntHop
NhopOffset == SizeofHops
HeaderBytes == SizeofHops + SizeofNhop

\* A uint64_t rate is written <<g, r>> and stands for g * 10^9 + r, with
\* 0 <= r < 10^9 (the values exceed the integers TLC computes with).
lineRateValues == << <<25, 0>>, <<50, 0>>, <<100, 0>>, <<200, 0>>, <<400, 0>>,
                     <<0, 0>>, <<0, 0>>, <<0, 0>> >>

\* A uint32_t is written as its two 16-bit halves <<low, high>>, a uint64_t
\* that is only copied (ts) as its four 16-bit quarters, lowest first.
ZeroU64 == <<0, 0, 0, 0>>

--------------------------------------------------------------------------
(* Object memory: a sequence of bytes; byte offsets count from 0.  The host is
   little-endian and bit-fields are allocated from the least significant bit
   in declaration order (the x86-64 ABI the project builds on). *)

\* The bits of the field [first, first + width) that lie in byte j are the
\* bits [FieldLo, FieldHi) of the object.
FieldLo(j, first) == IF first > 8 * j THEN first ELSE 8 * j
FieldHi(j, first, width) ==
    IF first + width < 8 * j + 8 THEN first + width ELSE 8 * j + 8

\* The unsigned value of the width bits of mem that start at bit first,
\* gathered byte by byte from byte j on.
RECURSIVE GetBitsFrom(_, _, _, _)
GetBitsFrom(mem, j, first, width) ==
    IF 8 * j >= first + width THEN 0
    ELSE LET lo == FieldLo(j, first)
             hi == FieldHi(j, first, width)
         IN  ((mem[j + 1] \div 2^(lo - 8 * j)) % 2^(hi - lo)) * 2^(lo - first)
             + GetBitsFrom(mem, j + 1, first, width)

GetBits(mem, first, width) == GetBitsFrom(mem, first \div 8, first, width)

\* Assignment to a bit-field, byte by byte from byte j on: the value is
\* truncated to the field's width and the other bits of the bytes the field
\* shares are kept.
RECURSIVE SetBitsFrom(_, _, _, _, _)
SetBitsFrom(mem, j, first, width, value) ==
    IF 8 * j >= first + width THEN mem
    ELSE LET lo == FieldLo(j, first)
             hi == FieldHi(j, first, width)
             sh == lo - 8 * j
             byte == (mem[j + 1] % 2^sh)
                     + ((value \div 2^(lo - first)) % 2^(hi - lo)) * 2^sh
                     + (mem[j + 1] \div 2^(sh + hi - lo)) * 2^(sh + hi - lo)
         IN  SetBitsFrom([mem EXCEPT ![j + 1] = byte], j + 1, first, width, value)

SetBits(mem, first, width, value) == SetBitsFrom(mem, first \div 8, first, width, value)

LoadU8(mem, off) == mem[off + 1]
StoreU8(mem, off, v) == [mem EXCEPT ![off + 1] = v % 256]
LoadU16(mem, off) == mem[off + 1] + 256 * mem[off + 2]
StoreU16(mem, off, v) ==
    [mem EXCEPT ![off + 1] = v % 256, ![off + 2] = (v \div 256) % 256]
LoadU32(mem, off) == <<LoadU16(mem, off), LoadU16(mem, off + 2)>>
StoreU32(mem, off, v) == StoreU16(StoreU16(mem, off, v[1]), off + 2, v[2])
LoadU64(mem, off) ==
    <<LoadU16(mem, off), LoadU16(mem, off + 2), LoadU16(mem, off + 4),
      LoadU16(mem, off + 6)>>
StoreU64(mem, off, v) ==
    StoreU16(StoreU16(StoreU16(StoreU16(mem, off, v[1]), off + 2, v[2]),
                      off + 4, v[3]), off + 6, v[4])

\* Buffer::Iterator: WriteU* append to the data written so far, least
\* significant byte first; ReadU* read at a position the same way.
WriteU8(data, v) == Append(data, v % 256)
WriteU16(data, v) == data \o <<v % 256, (v \div 256) % 256>>
WriteU32(data, v) == WriteU16(WriteU16(data, v[1]), v[2])
WriteU64(data, v) == WriteU16(WriteU16(WriteU16(WriteU16(data, v[1]), v[2]), v[3]), v[4])
ReadU8(data, pos) == data[pos + 1]
ReadU16(data, pos) == data[pos + 1] + 256 * data[pos + 2]
ReadU32(data, pos) == <<ReadU16(data, pos), ReadU16(data, pos + 2)>>
ReadU64(data, pos) ==
    <<ReadU16(data, pos), ReadU16(data, pos + 2), ReadU16(data, pos + 4),
      ReadU16(data, pos + 6)>>

--------------------------------------------------------------------------
(* ns3::IntHop, an 8-byte object at byte offset off of mem *)

LineRateBit(off) == 8 * off
TimeBit(off) == LineRateBit(off) + lineRateWidth
BytesBit(off) == TimeBit(off) + timeWidth
QlenBit(off) == BytesBit(off) + bytesWidth

HopLineRate(mem, off) == GetBits(mem, LineRateBit(off), lineRateWidth)
HopTime(mem, off) == GetBits(mem, TimeBit(off), timeWidth)
HopBytes(mem, off) == GetBits(mem, BytesBit(off), bytesWidth)
HopQlen(mem, off) == GetBits(mem, QlenBit(off), qlenWidth)

GetLineRate(mem, off) == lineRateValues[HopLineRate(mem, off) + 1]
GetBytes(mem, off) == HopBytes(mem, off) * byteUnit * multi
GetQlen(mem, off) == HopQlen(mem, off) * qlenUnit * multi
GetTime(mem, off) == HopTime(mem, off)

\* Mutant of RateIndex: the default branch falls back to index 0.
RateIndex_DefaultZero(rate) ==
    CASE rate = <<25, 0>> -> 0
      [] rate = <<50, 0>> -> 1
      [] rate = <<100, 0>> -> 2
      [] rate = <<200, 0>> -> 3
      [] rate = <<400, 0>> -> 4
      [] OTHER -> 0

\* The switch of IntHop::Set: the index of a supported rate, -1 for the default
\* branch (which prints an error and assigns nothing).
RateIndex(rate) ==
    CASE rate = <<25, 0>> -> 0
      [] rate = <<50, 0>> -> 1
      [] rate = <<100, 0>> -> 2
      [] rate = <<200, 0>> -> 3
      [] rate = <<400, 0>> -> 4
      [] OTHER -> -1

SetReportsError(rate) == RateIndex(rate) = -1

\* Mutant of Set: the quotients are rounded up instead of down.
Set_RoundUp(mem, off, time, bytes, qlen, rate) ==
    LET m1 == SetBits(mem, TimeBit(off), timeWidth, time)
        m2 == SetBits(m1, BytesBit(off), bytesWidth,
                      (bytes + byteUnit * multi - 1) \div (byteUnit * multi))
        m3 == SetBits(m2, QlenBit(off), qlenWidth,
                      (qlen + qlenUnit * multi - 1) \div (qlenUnit * multi))
    IN  IF RateIndex(rate) >= 0
        THEN SetBits(m3, LineRateBit(off), lineRateWidth, RateIndex(rate))
        ELSE m3

Set(mem, off, time, bytes, qlen, rate) ==
    LET m1 == SetBits(mem, TimeBit(off), timeWidth, time)
        m2 == SetBits(m1, BytesBit(off), bytesWidth, bytes \div (byteUnit * multi))
        m3 == SetBits(m2, QlenBit(off), qlenWidth, qlen \div (qlenUnit * multi))
    IN  IF RateIndex(rate) >= 0
        THEN SetBits(m3, LineRateBit(off), lineRateWidth, RateIndex(rate))
        ELSE m3

\* Mutant of GetBytesDelta: the counters are subtracted without the wrap branch.
GetBytesDelta_NoWrap(mem, a, b) ==
    (HopBytes(mem, a) - HopBytes(mem, b)) * byteUnit * multi

\* The operands are bit-fields narrower than int, so the product is formed in
\* 32 bits; it stays below 2^32 while multi <= 32, which MaxMulti keeps.
GetBytesDelta(mem, a, b) ==
    IF HopBytes(mem, a) >= HopBytes(mem, b)
    THEN (HopBytes(mem, a) - HopBytes(mem, b)) * byteUnit * multi
    ELSE (HopBytes(mem, a) + 2^bytesWidth - HopBytes(mem, b)) * byteUnit * multi

GetTimeDelta(mem, a, b) ==
    IF HopTime(mem, a) >= HopTime(mem, b)
    THEN HopTime(mem, a) - HopTime(mem, b)
    ELSE HopTime(mem, a) + 2^timeWidth - HopTime(mem, b)

--------------------------------------------------------------------------
(* ns3::IntHeader, an object whose union members all start at offset 0 *)

HopOffset(j) == j * SizeofIntHop
Nhop(mem) == LoadU16(mem, NhopOffset)

\* IntHeader::IntHeader(): nhop and every hop are zeroed.
NewIntHeader == [x \in 1..HeaderBytes |-> 0]

GetStaticSize ==
    IF mode = "NORMAL" THEN SizeofHops + SizeofNhop
    ELSE IF mode = "TS" THEN SizeofTs
    ELSE IF mode = "PINT" THEN SizeofPint
    ELSE 0

\* Mutant of PushHopIndex: the slot after the one the counter selects.
PushHopIndex_NextSlot(mem) == (Nhop(mem) + 1) % maxHop

\* The ring slot PushHop writes: idx = IntHeader_t.nhop % maxHop.
PushHopIndex(mem) == Nhop(mem) % maxHop

\* Mutant of PushHop: the mode is not tested.
PushHop_AnyMode(mem, time, bytes, qlen, rate) ==
    StoreU16(Set(mem, HopOffset(PushHopIndex(mem)), time, bytes, qlen, rate),
             NhopOffset, (Nhop(mem) + 1) % 2^16)

\* Mutant of PushHop: the counter is incremented before the slot is chosen.
PushHop_IncrementFirst(mem, time, bytes, qlen, rate) ==
    IF mode = "NORMAL"
    THEN LET idx == (Nhop(mem) + 1) % maxHop
         IN  StoreU16(Set(mem, HopOffset(idx), time, bytes, qlen, rate),
                      NhopOffset, (Nhop(mem) + 1) % 2^16)
    ELSE mem

PushHop(mem, time, bytes, qlen, rate) ==
    IF mode = "NORMAL"
    THEN LET idx == PushHopIndex(mem)
         IN  StoreU16(Set(mem, HopOffset(idx), time, bytes, qlen, rate),
                      NhopOffset, (Nhop(mem) + 1) % 2^16)
    ELSE mem

RECURSIVE SerializeHops(_, _, _)
SerializeHops(mem, j, data) ==
    IF j >= maxHop THEN data
    ELSE SerializeHops(mem, j + 1,
             WriteU32(WriteU32(data, LoadU32(mem, HopOffset(j))),
                      LoadU32(mem, HopOffset(j) + 4)))

\* The bytes IntHeader::Serialize writes from the iterator's start.
Serialize(mem) ==
    IF mode = "NORMAL" THEN WriteU16(SerializeHops(mem, 0, <<>>), Nhop(mem))
    ELSE IF mode = "TS" THEN WriteU64(<<>>, LoadU64(mem, 0))
    ELSE IF mode = "PINT"
         THEN IF pint_bytes = 1 THEN WriteU8(<<>>, LoadU8(mem, 0))
              ELSE IF pint_bytes = 2 THEN WriteU16(<<>>, LoadU16(mem, 0))
              ELSE <<>>
    ELSE <<>>

\* Mutant of DeserializeHops: the two words of a hop are read in the other order.
RECURSIVE DeserializeHops_WordsSwapped(_, _, _, _)
DeserializeHops_WordsSwapped(mem, data, j, pos) ==
    IF j >= maxHop THEN [mem |-> mem, pos |-> pos]
    ELSE DeserializeHops_WordsSwapped(
             StoreU32(StoreU32(mem, HopOffset(j) + 4, ReadU32(data, pos)),
                      HopOffset(j), ReadU32(data, pos + 4)),
             data, j + 1, pos + 8)

RECURSIVE DeserializeHops(_, _, _, _)
DeserializeHops(mem, data, j, pos) ==
    IF j >= maxHop THEN [mem |-> mem, pos |-> pos]
    ELSE DeserializeHops(
             StoreU32(StoreU32(mem, HopOffset(j), ReadU32(data, pos)),
                      HopOffset(j) + 4, ReadU32(data, pos + 4)),
             data, j + 1, pos + 8)

\* IntHeader::Deserialize on the object mem: the object afterwards, the
\* iterator's final position (bytes read) and the value returned.
Deserialize(mem, data) ==
    LET r == IF mode = "NORMAL"
             THEN LET h == DeserializeHops(mem, data, 0, 0)
                  IN  [mem |-> StoreU16(h.mem, NhopOffset, ReadU16(data, h.pos)),
                       pos |-> h.pos + 2]
             ELSE IF mode = "TS"
             THEN [mem |-> StoreU64(mem, 0, ReadU64(data, 0)), pos |-> 8]
             ELSE IF mode = "PINT"
             THEN IF pint_bytes = 1
                  THEN [mem |-> StoreU8(mem, 0, ReadU8(data, 0)), pos |-> 1]
                  ELSE IF pint_bytes = 2
                  THEN [mem |-> StoreU16(mem, 0, ReadU16(data, 0)), pos |-> 2]
                  ELSE [mem |-> mem, pos |-> 0]
             ELSE [mem |-> mem, pos |-> 0]
    IN  [mem |-> r.mem, read |-> r.pos, ret |-> GetStaticSize]

GetTs(mem) == IF mode = "TS" THEN LoadU64(mem, 0) ELSE ZeroU64

GetPower(mem) ==
    IF mode = "PINT"
    THEN IF pint_bytes = 1 THEN LoadU8(mem, 0) ELSE LoadU16(mem, 0)
    ELSE 0

SetPower(mem, power) ==
    IF mode = "PINT"
    THEN IF pint_bytes = 1 THEN StoreU8(mem, 0, power) ELSE StoreU16(mem, 0, power)
    ELSE mem

--------------------------------------------------------------------------
(* Bounds and input sets of the codec model *)

MaxPush == 8                    \* PushHop calls with freely chosen samples
MaxSteadyPush == 65540          \* PushHop calls in all in the long run of SpecRing
MaxMulti == 2                   \* IntHop::multi ranges over 1..MaxMulti

Modes == {"NORMAL", "TS", "PINT", "NONE"}
PintWidths == {1, 2}
SupportedRates == {<<25, 0>>, <<50, 0>>, <<100, 0>>, <<200, 0>>, <<400, 0>>}

Sample(time, bytes, qlen, rate) ==
    [time |-> time, bytes |-> bytes, qlen |-> qlen, rate |-> rate]

\* Samples for PushHop: a plain one, one with an unsupported rate and a time
\* beyond 24 bits, one with a byte counter beyond the 20-bit field.
SteadySample == Sample(1000, 901, 241, <<100, 0>>)
PushSamples == {SteadySample,
                Sample(2^24 + 2, 5000, 1000, <<10, 0>>),
                Sample(77, 2^27 + 256, 160, <<400, 0>>)}

\* Inputs for IntHop::Set, one argument varied at a time around HopBase; they
\* scale with multi so that each lands on the same side of a quantization
\* step or of a field's width for every multi.
ByteStep == byteUnit * multi
QlenStep == qlenUnit * multi
HopBase == Sample(5, 5 * ByteStep + 77, 3 * QlenStep + 1, <<100, 0>>)
BytesInputs == {0, ByteStep - 1, ByteStep,
                (2^bytesWidth - 3) * ByteStep,
                (2^bytesWidth - 1) * ByteStep + (ByteStep - 1),
                2^bytesWidth * ByteStep + 5 * ByteStep + 3}
QlenInputs == {QlenStep - 1,
               (2^qlenWidth - 1) * QlenStep + (QlenStep - 1),
               2^qlenWidth * QlenStep + 2 * QlenStep}
TimeInputs == {2^timeWidth - 1, 2^timeWidth + 7}
RateInputs == SupportedRates \cup {<<10, 0>>, <<0, 0>>}
HopInputs ==
    {HopBase}
    \cup {[HopBase EXCEPT !.bytes = b] : b \in BytesInputs}
    \cup {[HopBase EXCEPT !.qlen = q] : q \in QlenInputs}
    \cup {[HopBase EXCEPT !.time = t] : t \in TimeInputs}
    \cup {[HopBase EXCEPT !.rate = r] : r \in RateInputs}
HopSlots == {0, 1}              \* the two hops IntHop's operations are tried on

TsInputs == {<<1, 0, 0, 0>>, <<4660, 22136, 39612, 57072>>,
             <<65535, 65535, 65535, 65535>>}
PowerInputs == {7, 255, 256, 43981}
RxFill == {0, 255}              \* every byte of the object Deserialize is called on

NoPush == [n |-> -1, sample |-> Sample(0, 0, 0, <<0, 0>>), rated |-> <<0, 0>>]
NoCodecOp == [op |-> "none", slot |-> 0, other |-> 0, args |-> Sample(0, 0, 0, <<0, 0>>),
              prevRate |-> <<0, 0>>, err |-> FALSE, ret |-> 0, ret2 |-> 0]

--------------------------------------------------------------------------
(* Operations on the header hdr *)

\* hop.Set(...) on hop slot of hdr (IntHeader_t.hop is public).
DoSet(slot, s) ==
    /\ pc = "build"
    /\ hdr' = Set(hdr, HopOffset(slot), s.time, s.bytes, s.qlen, s.rate)
    /\ codecOp' = [NoCodecOp EXCEPT !.op = "Set", !.slot = slot, !.args = s,
                                    !.prevRate = GetLineRate(hdr, HopOffset(slot)),
                                    !.err = SetReportsError(s.rate)]
    /\ UNCHANGED <<mode, pint_bytes, multi, buffer, rx, pc, pushCount, ring>>

\* a.GetBytesDelta(b) and a.GetTimeDelta(b) for two hops of hdr.
DoGetDelta(a, b) ==
    /\ pc = "build"
    /\ codecOp' = [NoCodecOp EXCEPT !.op = "GetDelta", !.slot = a, !.other = b,
                       !.ret = GetBytesDelta(hdr, HopOffset(a), HopOffset(b)),
                       !.ret2 = GetTimeDelta(hdr, HopOffset(a), HopOffset(b))]
    /\ UNCHANGED <<mode, pint_bytes, multi, hdr, buffer, rx, pc, pushCount, ring>>

DoPushHop(s) ==
    /\ pc = "build"
    /\ hdr' = PushHop(hdr, s.time, s.bytes, s.qlen, s.rate)
    /\ pushCount' = pushCount + 1
    /\ ring' = [ring EXCEPT ![pushCount % maxHop] =
                   [n |-> pushCount, sample |-> s,
                    rated |-> IF s.rate \in SupportedRates THEN s.rate ELSE @.rated]]
    /\ codecOp' = [NoCodecOp EXCEPT !.op = "PushHop", !.args = s,
                                    !.slot = PushHopIndex(hdr)]
    /\ UNCHANGED <<mode, pint_bytes, multi, buffer, rx, pc>>

\* An assignment to the public member ts, as a TS-mode sender makes it.
DoWriteTs(v) ==
    /\ pc = "build"
    /\ mode = "TS"
    /\ hdr' = StoreU64(hdr, 0, v)
    /\ codecOp' = [NoCodecOp EXCEPT !.op = "WriteTs"]
    /\ UNCHANGED <<mode, pint_bytes, multi, buffer, rx, pc, pushCount, ring>>

DoSetPower(power) ==
    /\ pc = "build"
    /\ hdr' = SetPower(hdr, power)
    /\ codecOp' = [NoCodecOp EXCEPT !.op = "SetPower", !.ret = power]
    /\ UNCHANGED <<mode, pint_bytes, multi, buffer, rx, pc, pushCount, ring>>

DoSerialize ==
    /\ pc = "build"
    /\ buffer' = Serialize(hdr)
    /\ pc' = "sent"
    /\ codecOp' = [NoCodecOp EXCEPT !.op = "Serialize"]
    /\ UNCHANGED <<mode, pint_bytes, multi, hdr, rx, pushCount, ring>>

\* Deserialize on a header object all of whose bytes are fill.
DoDeserialize(fill) ==
    /\ pc = "sent"
    /\ LET r == Deserialize([x \in 1..HeaderBytes |-> fill], buffer)
       IN  /\ rx' = r.mem
           /\ codecOp' = [NoCodecOp EXCEPT !.op = "Deserialize", !.slot = fill,
                                           !.ret = r.ret, !.ret2 = r.read]
    /\ pc' = "received"
    /\ UNCHANGED <<mode, pint_bytes, multi, hdr, buffer, pushCount, ring>>

--------------------------------------------------------------------------
(* Specifications *)

InitNode ==
    /\ m_devices = <<>>
    /\ m_handlers = <<>>
    /\ m_deviceAdditionListeners = <<>>
    /\ devNode = [d \in AllDevices |-> "null"]
    /\ devIfIndex = [d \in AllDevices |-> -1]
    /\ devRxCb = [d \in AllDevices |-> "null"]
    /\ devPromiscCb = [d \in AllDevices |-> "null"]
    /\ events = <<>>
    /\ aborted = FALSE
    /\ lastOp = NoOp
    /\ handlerCalls = <<>>
    /\ listenerCalls = <<>>
    /\ m_applications = <<>>
    /\ appNode = [a \in Applications |-> "null"]
    /\ m_initialized = [o \in Objects |-> FALSE]
    /\ m_disposed = [o \in Objects |-> FALSE]
    /\ disposed = FALSE
    /\ lifecycleCalls = <<>>
    /\ objRet = "null"
    /\ addLog = <<>>
    /\ initCount = [o \in Objects |-> 0]

\* An empty cache, as PropagationCache() leaves it.
InitCache ==
    /\ m_pathCache = <<>>
    /\ cacheOp = NoCacheOp
    /\ pathDisposeCalls = <<>>
    /\ pathAdded = {}

\* A freshly constructed header and nothing serialized yet.
InitHeader ==
    /\ hdr = NewIntHeader
    /\ rx = NewIntHeader
    /\ buffer = <<>>
    /\ pc = "build"
    /\ pushCount = 0
    /\ ring = [k \in 0..maxHop - 1 |-> NoPush]
    /\ codecOp = NoCodecOp

\* The initial values of the static members.
InitStatics ==
    /\ mode = "NONE"
    /\ pint_bytes = 2
    /\ multi = 1

\* A node, the static members and a header as their constructors leave them.
InitProgram == InitNode /\ InitStatics /\ InitHeader /\ InitCache

\* Devices, protocol handlers and the dispatch of received packets.
NextDispatch ==
    \/ \E d \in DispatchDevices : AddDevice(d) /\ UNCHANGED <<lifeVars, codecVars, cacheVars>>
    \/ \E h \in Handlers, p \in FilterProtocols, d \in FilterDevices, b \in BOOLEAN :
           RegisterProtocolHandler(h, p, d, b) /\ UNCHANGED <<lifeVars, codecVars, cacheVars>>
    \/ \E h \in Handlers : UnregisterProtocolHandler(h) /\ UNCHANGED <<lifeVars, codecVars, cacheVars>>
    \/ \E d \in DispatchDevices, p \in PacketProtocols, c \in Contexts :
           NonPromiscReceiveFromDevice(d, p, c) /\ UNCHANGED <<lifeVars, codecVars, cacheVars>>
    \/ \E d \in DispatchDevices, p \in PacketProtocols, c \in Contexts :
           PromiscReceiveFromDevice(d, p, c) /\ UNCHANGED <<lifeVars, codecVars, cacheVars>>

SpecDispatch == InitProgram /\ [][NextDispatch]_vars

\* Devices and device-addition listeners.
NextListen ==
    \/ \E d \in AllDevices : AddDevice(d) /\ UNCHANGED <<lifeVars, codecVars, cacheVars>>
    \/ \E l \in Listeners : RegisterDeviceAdditionListener(l) /\ UNCHANGED <<lifeVars, codecVars, cacheVars>>
    \/ \E l \in Listeners : UnregisterDeviceAdditionListener(l) /\ UNCHANGED <<lifeVars, codecVars, cacheVars>>

SpecListen == InitProgram /\ [][NextListen]_vars

\* The handler table and the listener table: registrations and removals,
\* also of callbacks that were never registered.
NextTables ==
    \/ \E h \in Handlers, p \in FilterProtocols, b \in BOOLEAN :
           RegisterProtocolHandler(h, p, NoDevice, b) /\ UNCHANGED <<lifeVars, codecVars, cacheVars>>
    \/ \E h \in Handlers \cup {UnknownHandler} :
           UnregisterProtocolHandler(h) /\ UNCHANGED <<lifeVars, codecVars, cacheVars>>
    \/ \E l \in Listeners :
           RegisterDeviceAdditionListener(l) /\ UNCHANGED <<lifeVars, codecVars, cacheVars>>
    \/ \E l \in Listeners \cup {UnknownListener} :
           UnregisterDeviceAdditionListener(l) /\ UNCHANGED <<lifeVars, codecVars, cacheVars>>

SpecTables == InitProgram /\ [][NextTables]_vars

\* The life of a node up to its disposal: devices and applications are
\* attached and looked up, callbacks are registered, scheduled events run and
\* the node is initialized, in any order; DoDispose ends it.
NextLife ==
    \/ \E d \in LifeDevices :
           /\ ~disposed
           /\ AddDevice(d)
           /\ addLog' = Append(addLog, [op |-> "AddDevice", object |-> d,
                                        index |-> lastOp'.ret])
           /\ objRet' = d
           /\ NoLifecycle
           /\ UNCHANGED <<codecVars, cacheVars>>
    \/ \E a \in Applications :
           /\ ~disposed
           /\ AddApplication(a)
           /\ addLog' = Append(addLog, [op |-> "AddApplication", object |-> a,
                                        index |-> lastOp'.ret])
           /\ UNCHANGED <<codecVars, cacheVars>>
    \/ \E i \in 0..Cardinality(LifeDevices) :
           /\ ~disposed
           /\ GetDevice(i)
           /\ UNCHANGED <<addLog, codecVars, cacheVars>>
    \/ \E i \in 0..Cardinality(Applications) :
           /\ ~disposed
           /\ GetApplication(i)
           /\ UNCHANGED <<addLog, codecVars, cacheVars>>
    \/ /\ ~disposed
       /\ Len(m_handlers) < 1
       /\ RegisterProtocolHandler("h1", 0, NoDevice, FALSE)
       /\ objRet' = "null" /\ NoLifecycle /\ UNCHANGED <<addLog, codecVars, cacheVars>>
    \/ /\ ~disposed
       /\ Len(m_deviceAdditionListeners) < 1
       /\ RegisterDeviceAdditionListener("l1")
       /\ objRet' = "null" /\ NoLifecycle /\ UNCHANGED <<addLog, codecVars, cacheVars>>
    \/ ~disposed /\ RunEvent /\ UNCHANGED <<codecVars, cacheVars>>
    \/ ~disposed /\ DoInitialize /\ UNCHANGED <<codecVars, cacheVars>>
    \/ ~disposed /\ DoDispose /\ UNCHANGED <<codecVars, cacheVars>>

SpecLife == InitProgram /\ [][NextLife]_vars

\* A node that is disposed and used again: d1 and a1 are attached, callbacks
\* registered and packets delivered before and after DoDispose.
NextDisposed ==
    \/ /\ Len(addLog) < MaxAdds
       /\ AddDevice("d1")
       /\ addLog' = Append(addLog, [op |-> "AddDevice", object |-> "d1",
                                    index |-> lastOp'.ret])
       /\ objRet' = "d1"
       /\ NoLifecycle
       /\ UNCHANGED <<codecVars, cacheVars>>
    \/ /\ Len(addLog) < MaxAdds
       /\ AddApplication("a1")
       /\ addLog' = Append(addLog, [op |-> "AddApplication", object |-> "a1",
                                    index |-> lastOp'.ret])
       /\ UNCHANGED <<codecVars, cacheVars>>
    \/ \E h \in Handlers :
           /\ RegisterProtocolHandler(h, 0, NoDevice, FALSE)
           /\ objRet' = "null" /\ NoLifecycle /\ UNCHANGED <<addLog, codecVars, cacheVars>>
    \/ \E l \in Listeners :
           /\ RegisterDeviceAdditionListener(l)
           /\ objRet' = "null" /\ NoLifecycle /\ UNCHANGED <<addLog, codecVars, cacheVars>>
    \/ \E c \in Contexts :
           /\ NonPromiscReceiveFromDevice("d1", 2048, c)
           /\ objRet' = "null" /\ NoLifecycle /\ UNCHANGED <<addLog, codecVars, cacheVars>>
    \/ DoDispose /\ UNCHANGED <<codecVars, cacheVars>>

SpecDisposed == InitProgram /\ [][NextDisposed]_vars

\* IntHop: Set and the getters on two hops, for every multi.
InitHop ==
    /\ InitNode
    /\ InitHeader
    /\ InitCache
    /\ mode = "NORMAL"
    /\ pint_bytes = 2
    /\ multi \in 1..MaxMulti

NextHop ==
    \/ \E slot \in HopSlots, s \in HopInputs :
           DoSet(slot, s) /\ UNCHANGED <<nodeVars, logVars, lifeVars, cacheVars>>
    \/ \E a \in HopSlots, b \in HopSlots :
           DoGetDelta(a, b) /\ UNCHANGED <<nodeVars, logVars, lifeVars, cacheVars>>

SpecHop == InitHop /\ [][NextHop]_vars

\* IntHeader in each mode: a header is built, serialized and deserialized.
InitHdr ==
    /\ InitNode
    /\ InitHeader
    /\ InitCache
    /\ mode \in Modes
    /\ pint_bytes \in (IF mode = "PINT" THEN PintWidths ELSE {2})
    /\ multi = 1

NextHdr ==
    \/ \E s \in PushSamples :
           /\ pushCount < MaxPush
           /\ mode = "NORMAL" \/ s = SteadySample
           /\ DoPushHop(s)
           /\ UNCHANGED <<nodeVars, logVars, lifeVars, cacheVars>>
    \/ \E v \in TsInputs : DoWriteTs(v) /\ UNCHANGED <<nodeVars, logVars, lifeVars, cacheVars>>
    \/ \E p \in PowerInputs : DoSetPower(p) /\ UNCHANGED <<nodeVars, logVars, lifeVars, cacheVars>>
    \/ DoSerialize /\ UNCHANGED <<nodeVars, logVars, lifeVars, cacheVars>>
    \/ \E f \in RxFill : DoDeserialize(f) /\ UNCHANGED <<nodeVars, logVars, lifeVars, cacheVars>>

SpecHdr == InitHdr /\ [][NextHdr]_vars

\* The ring of a NORMAL header: MaxPush freely chosen pushes, then the same
\* sample over and over until the 16-bit counter has gone round.
InitRing ==
    /\ InitNode
    /\ InitHeader
    /\ InitCache
    /\ mode = "NORMAL"
    /\ pint_bytes = 2
    /\ multi = 1

NextRing ==
    \E s \in PushSamples :
        /\ pushCount < MaxSteadyPush
        /\ pushCount < MaxPush \/ s = SteadySample
        /\ DoPushHop(s)
        /\ UNCHANGED <<nodeVars, logVars, lifeVars, cacheVars>>

SpecRing == InitRing /\ [][NextRing]_vars

\* The propagation cache: the node and the header are left alone.
NextCache ==
    \/ \E data \in PathData, a \in MobilityModels, b \in MobilityModels,
          modelUid \in ModelUids :
           /\ \/ Len(m_pathCache) < MaxPaths
              \/ MapFind(m_pathCache, PropagationPathIdentifier(a, b, modelUid)) # 0
           /\ AddPathData(data, a, b, modelUid)
           /\ UNCHANGED <<m_devices, m_handlers, m_deviceAdditionListeners, devNode,
                          devIfIndex, devRxCb, devPromiscCb, events, logVars,
                          lifeVars, codecVars>>
    \/ \E a \in MobilityModels, b \in MobilityModels, modelUid \in ModelUids :
           /\ GetPathData(a, b, modelUid)
           /\ UNCHANGED <<m_devices, m_handlers, m_deviceAdditionListeners, devNode,
                          devIfIndex, devRxCb, devPromiscCb, events, logVars,
                          lifeVars, codecVars>>
    \/ /\ Cleanup
       /\ UNCHANGED <<m_devices, m_handlers, m_deviceAdditionListeners, devNode,
                      devIfIndex, devRxCb, devPromiscCb, events, logVars,
                      lifeVars, codecVars>>

SpecCache == InitProgram /\ [][NextCache]_vars

--------------------------------------------------------------------------
(* Claims about the node *)

IsDispatch == lastOp.op \in {"NonPromiscReceiveFromDevice", "PromiscReceiveFromDevice"}
Dispatched == IsDispatch /\ lastOp.context = m_id

\* The positions of the entries the spec's matching rule selects for the last
\* dispatch.
MatchingEntries ==
    {i \in 1..Len(m_handlers) :
        /\ m_handlers[i].device = NoDevice \/ m_handlers[i].device = lastOp.device
        /\ m_handlers[i].protocol = 0 \/ m_handlers[i].protocol = lastOp.protocol
        /\ m_handlers[i].promiscuous = lastOp.promiscuous}

\* C1: a dispatch run in the node's own context invokes exactly the entries
\* matching (device, protocol, promiscuous path), each once, in registration
\* order, with the dispatch's device and protocol, and returns true iff at
\* least one entry matched.
C1_DispatchInvokesMatchingInOrder ==
    Dispatched =>
        /\ \A k \in 1..Len(handlerCalls) :
              /\ handlerCalls[k].entry \in MatchingEntries
              /\ handlerCalls[k].handler = m_handlers[handlerCalls[k].entry].handler
              /\ handlerCalls[k].device = lastOp.device
              /\ handlerCalls[k].protocol = lastOp.protocol
        /\ \A k \in 1..Len(handlerCalls) - 1 :
              handlerCalls[k].entry < handlerCalls[k + 1].entry
        /\ \A i \in MatchingEntries :
              Cardinality({k \in 1..Len(handlerCalls) : handlerCalls[k].entry = i}) = 1
        /\ (lastOp.ret = 1) <=> (MatchingEntries # {})
        /\ lastOp.ret \in {0, 1}

\* A dispatch on d1 that invoked two entries (a device-bound one and a
\* wildcard one) and skipped none of the matching ones.
C1_Witness ==
    /\ Dispatched
    /\ Len(handlerCalls) = 2
    /\ lastOp.ret = 1
    /\ \E i \in MatchingEntries : m_handlers[i].device = lastOp.device
    /\ \E i \in MatchingEntries : m_handlers[i].device = NoDevice

\* C2: an entry registered promiscuous is invoked only by dispatches entered
\* through PromiscReceiveFromDevice, and a non-promiscuous entry only through
\* NonPromiscReceiveFromDevice.
C2_PromiscuousIsolation ==
    IsDispatch =>
        \A k \in 1..Len(handlerCalls) :
            m_handlers[handlerCalls[k].entry].promiscuous
                = (lastOp.op = "PromiscReceiveFromDevice")

\* A promiscuous dispatch that invoked a promiscuous entry and left out a
\* non-promiscuous entry whose device and protocol filters match the packet.
C2_Witness ==
    /\ lastOp.op = "PromiscReceiveFromDevice"
    /\ Len(handlerCalls) = 1
    /\ \E i \in 1..Len(m_handlers) :
          /\ ~m_handlers[i].promiscuous
          /\ m_handlers[i].device \in {NoDevice, lastOp.device}
          /\ m_handlers[i].protocol \in {0, lastOp.protocol}

\* C3: RegisterDeviceAdditionListener invokes the new listener once per
\* attached device, in attachment order, and no other listener.
C3_RegisterReplaysDevices ==
    lastOp.op = "RegisterDeviceAdditionListener" =>
        /\ Len(listenerCalls) = Len(m_devices)
        /\ \A i \in 1..Len(listenerCalls) :
              /\ listenerCalls[i].listener = lastOp.callback
              /\ listenerCalls[i].device = m_devices[i]

\* A registration made with three devices attached and another listener
\* already in the table.
C3_Witness ==
    /\ lastOp.op = "RegisterDeviceAdditionListener"
    /\ Len(m_devices) = 3
    /\ Len(listenerCalls) = 3
    /\ \E i \in 1..Len(m_deviceAdditionListeners) :
          m_deviceAdditionListeners[i] # lastOp.callback

\* C4: AddDevice(D) invokes every entry of the listener table once, in
\* registration order, with D, and D is then already in the device sequence
\* with its index set.
C4_AddDeviceNotifiesListeners ==
    lastOp.op = "AddDevice" =>
        /\ Len(listenerCalls) = Len(m_deviceAdditionListeners)
        /\ \A i \in 1..Len(listenerCalls) :
              /\ listenerCalls[i].listener = m_deviceAdditionListeners[i]
              /\ listenerCalls[i].device = lastOp.device
              /\ listenerCalls[i].attached
              /\ listenerCalls[i].ifIndex = lastOp.ret
        /\ m_devices[lastOp.ret + 1] = lastOp.device

\* The second device is attached while two different listeners are registered.
C4_Witness ==
    /\ lastOp.op = "AddDevice"
    /\ lastOp.ret = 1
    /\ Len(listenerCalls) = 2
    /\ listenerCalls[1].listener # listenerCalls[2].listener

--------------------------------------------------------------------------
(* Further claims about the node *)

\* C11: a promiscuous registration installs the promiscuous receive callback
\* on exactly the devices attached at that moment (no device filter) or on
\* exactly the named device; a non-promiscuous registration installs it on no
\* device; AddDevice never installs it.
C11_PromiscuousSnapshot ==
    [][/\ lastOp'.op = "RegisterProtocolHandler" =>
            devPromiscCb' =
                IF ~lastOp'.promiscuous THEN devPromiscCb
                ELSE IF lastOp'.device = NoDevice
                     THEN [d \in AllDevices |->
                              IF \E i \in 1..Len(m_devices) : m_devices[i] = d
                              THEN "PromiscReceiveFromDevice"
                              ELSE devPromiscCb[d]]
                     ELSE [d \in AllDevices |->
                              IF d = lastOp'.device
                              THEN "PromiscReceiveFromDevice"
                              ELSE devPromiscCb[d]]
       /\ lastOp'.op = "AddDevice" => devPromiscCb' = devPromiscCb]_vars

\* d2 was attached after a promiscuous registration without device filter
\* armed d1: d2 has no promiscuous callback.
C11_Witness ==
    /\ lastOp.op = "AddDevice"
    /\ lastOp.device = "d2"
    /\ m_devices = <<"d1", "d2">>
    /\ \E i \in 1..Len(m_handlers) :
          m_handlers[i].promiscuous /\ m_handlers[i].device = NoDevice
    /\ devPromiscCb["d1"] = "PromiscReceiveFromDevice"
    /\ devPromiscCb["d2"] = "null"

\* C14: a dispatch run while the current context differs from the node's id
\* is fatal and invokes no handler; handlers are invoked only when the
\* context equals the node's id.
C14_ContextMismatchIsFatal ==
    /\ (IsDispatch /\ lastOp.context # m_id) =>
          /\ aborted
          /\ handlerCalls = <<>>
    /\ handlerCalls # <<>> => /\ IsDispatch
                              /\ lastOp.context = m_id
                              /\ ~aborted

\* A dispatch in another node's context that an entry of the table matches.
C14_Witness ==
    /\ IsDispatch
    /\ lastOp.context = "node1"
    /\ MatchingEntries # {}
    /\ aborted
    /\ handlerCalls = <<>>

\* What is left of table when its first element satisfying hit is removed.
FirstHitRemoved(before, after, hits) ==
    IF hits = {} THEN after = before
    ELSE LET k == CHOOSE i \in hits : \A j \in hits : i <= j
         IN  /\ Len(after) = Len(before) - 1
             /\ \A i \in 1..Len(after) :
                   after[i] = IF i < k THEN before[i] ELSE before[i + 1]

\* C12: UnregisterProtocolHandler(h) removes exactly the earliest entry whose
\* handler is h and keeps every other entry in order; when no entry has
\* handler h the table is unchanged and no error is raised.  The same for
\* UnregisterDeviceAdditionListener and the listener table.
C12_UnregisterRemovesFirst ==
    [][/\ lastOp'.op = "UnregisterProtocolHandler" =>
            /\ FirstHitRemoved(m_handlers, m_handlers',
                     {i \in 1..Len(m_handlers) :
                          m_handlers[i].handler = lastOp'.callback})
            /\ ~aborted'
       /\ lastOp'.op = "UnregisterDeviceAdditionListener" =>
            /\ FirstHitRemoved(m_deviceAdditionListeners, m_deviceAdditionListeners',
                     {i \in 1..Len(m_deviceAdditionListeners) :
                          m_deviceAdditionListeners[i] = lastOp'.callback})
            /\ ~aborted']_vars

\* l1 was removed from a table of three listeners holding it twice: its later
\* registration is still there, behind l2.
C12_Witness ==
    /\ lastOp.op = "UnregisterDeviceAdditionListener"
    /\ lastOp.callback = "l1"
    /\ m_deviceAdditionListeners = <<"l2", "l1">>
    /\ Len(m_handlers) = 2
    /\ m_handlers[1].handler = m_handlers[2].handler

\* The records of addLog made by op.
AddsOf(op) == {k \in 1..Len(addLog) : addLog[k].op = op}

\* The sequence op's records say was built.
Attached(op) == IF op = "AddDevice" THEN m_devices ELSE m_applications

CallsOnEmptyTables(method, objs) ==
    [k \in 1..Len(objs) |->
        [method |-> method, object |-> objs[k], handlers |-> 0, listeners |-> 0]]

\* C15: Dispose empties the listener and the handler table before it disposes
\* any device or application, disposes every device once in attachment
\* order, then every application once in attachment order, and leaves the
\* four sequences empty.
C15_DisposeOrder ==
    [][lastOp'.op = "Dispose" =>
          /\ lifecycleCalls' =
                 CallsOnEmptyTables("Dispose", m_devices \o m_applications)
          /\ \A o \in Range(m_devices) \cup Range(m_applications) : m_disposed'[o]
          /\ m_devices' = <<>>
          /\ m_applications' = <<>>
          /\ m_handlers' = <<>>
          /\ m_deviceAdditionListeners' = <<>>]_vars

\* A node with two devices and two applications was disposed.
C15_Witness ==
    /\ lastOp.op = "Dispose"
    /\ Len(lifecycleCalls) = 4
    /\ lifecycleCalls[1].object = "d2" /\ lifecycleCalls[2].object = "d1"
    /\ lifecycleCalls[3].object = "a1" /\ lifecycleCalls[4].object = "a2"
    /\ \A o \in {"d1", "d2", "a1", "a2"} : m_disposed[o]
    /\ m_devices = <<>> /\ m_applications = <<>>
    /\ m_handlers = <<>> /\ m_deviceAdditionListeners = <<>>

\* C16: after Dispose, an AddDevice, AddApplication, RegisterProtocolHandler,
\* RegisterDeviceAdditionListener or dispatch call is a fatal error that
\* changes none of the four sequences and invokes no handler or listener.
C16_DisposedNodeRejectsCalls ==
    (/\ disposed
     /\ lastOp.op \in {"AddDevice", "AddApplication", "RegisterProtocolHandler",
                       "RegisterDeviceAdditionListener",
                       "NonPromiscReceiveFromDevice", "PromiscReceiveFromDevice"}) =>
        /\ aborted
        /\ m_devices = <<>>
        /\ m_applications = <<>>
        /\ m_handlers = <<>>
        /\ m_deviceAdditionListeners = <<>>
        /\ handlerCalls = <<>>
        /\ listenerCalls = <<>>

\* The event an Add call schedules for object.
InitEvent(method, object) ==
    [context |-> m_id, delay |-> 0, method |-> method, object |-> object]

\* C18: AddDevice(D) and AddApplication(A) schedule exactly one
\* initialization event for D or A, with the node's id as context and delay
\* zero, and initialize nothing themselves: when AddDevice has notified the
\* listeners and returned, D's event is still waiting.
C18_InitializationIsScheduled ==
    [][/\ lastOp'.op = "AddDevice" =>
            /\ events' = Append(events, InitEvent("NetDevice::Initialize",
                                                  lastOp'.device))
            /\ Len(listenerCalls') = Len(m_deviceAdditionListeners)
            /\ m_initialized' = m_initialized
            /\ initCount' = initCount
       /\ lastOp'.op = "AddApplication" =>
            /\ events' = Append(events, InitEvent("Application::Initialize",
                                                  objRet'))
            /\ m_initialized' = m_initialized
            /\ initCount' = initCount]_vars

\* AddDevice(d2) has notified a listener and returned; d2's event is the only
\* one waiting and d2 is not initialized, while d1's event has run.
C18_Witness ==
    /\ lastOp.op = "AddDevice"
    /\ lastOp.device = "d2"
    /\ m_devices = <<"d1", "d2">>
    /\ Len(listenerCalls) = 1
    /\ events = <<InitEvent("NetDevice::Initialize", "d2")>>
    /\ ~m_initialized["d2"]
    /\ m_initialized["d1"]

\* C19: Initialize calls Initialize() on every attached device in attachment
\* order and then on every attached application in attachment order, and no
\* device or application is ever initialized twice, whether by Initialize or
\* by the event scheduled when it was attached.
C19_InitializeOrderIdempotent ==
    [][/\ lastOp'.op = "Initialize" =>
            /\ Len(lifecycleCalls') = Len(m_devices) + Len(m_applications)
            /\ \A k \in 1..Len(lifecycleCalls') :
                  /\ lifecycleCalls'[k].method = "Initialize"
                  /\ lifecycleCalls'[k].object = (m_devices \o m_applications)[k]
            /\ \A o \in Range(m_devices) \cup Range(m_applications) :
                  m_initialized'[o]
            /\ \A o \in Objects :
                  initCount'[o] =
                      IF /\ o \in Range(m_devices) \cup Range(m_applications)
                         /\ ~m_initialized[o]
                      THEN initCount[o] + 1
                      ELSE initCount[o]
       /\ \A o \in Objects : initCount'[o] <= 1
       /\ \A o \in Objects : m_initialized[o] => m_initialized'[o]]_vars

\* Initialize on a node with two devices and two applications after the
\* events of d1 and a1 had run; every object has been initialized once.
C19_Witness ==
    /\ lastOp.op = "Initialize"
    /\ m_devices = <<"d1", "d2">>
    /\ m_applications = <<"a1", "a2">>
    /\ Len(lifecycleCalls) = 4
    /\ events = <<InitEvent("NetDevice::Initialize", "d2"),
                  InitEvent("Application::Initialize", "a2")>>
    /\ \A o \in {"d1", "d2", "a1", "a2"} : initCount[o] = 1

\* C21: UnregisterProtocolHandler changes no device's receive callbacks; a
\* promiscuous receive callback once installed on a device stays installed,
\* also when the last promiscuous handler is unregistered, and a dispatch the
\* device then delivers to the promiscuous path invokes no handler and
\* returns false.
C21_UnregisterKeepsCallbacks ==
    [][/\ lastOp'.op = "UnregisterProtocolHandler" =>
            /\ devRxCb' = devRxCb
            /\ devPromiscCb' = devPromiscCb
       /\ \A d \in AllDevices :
            devPromiscCb[d] = "PromiscReceiveFromDevice" =>
                devPromiscCb'[d] = "PromiscReceiveFromDevice"
       /\ (/\ lastOp'.op = "PromiscReceiveFromDevice"
           /\ lastOp'.context = m_id
           /\ \A i \in 1..Len(m_handlers) : ~m_handlers[i].promiscuous) =>
            /\ handlerCalls' = <<>>
            /\ lastOp'.ret = 0]_vars

\* d1 delivered a packet to the promiscuous path of a node whose handler
\* table has become empty again: no handler was invoked, false was returned.
C21_Witness ==
    /\ lastOp.op = "PromiscReceiveFromDevice"
    /\ lastOp.context = m_id
    /\ lastOp.device = "d1"
    /\ devPromiscCb["d1"] = "PromiscReceiveFromDevice"
    /\ m_handlers = <<>>
    /\ handlerCalls = <<>>
    /\ lastOp.ret = 0
    /\ ~aborted

--------------------------------------------------------------------------
(* Claims about the telemetry codec *)

\* The wire size the spec gives each mode.
WireSize ==
    IF mode = "NORMAL" THEN 42
    ELSE IF mode = "TS" THEN 8
    ELSE IF mode = "PINT" THEN pint_bytes
    ELSE 0

\* C5: in every mode the number of bytes Serialize writes, the number of bytes
\* Deserialize reads, the value Deserialize returns and GetStaticSize() are
\* equal, and GetStaticSize() is 42 in NORMAL, 8 in TS, pintByteWidth in PINT
\* and 0 in NONE.
C5_SizesAgree ==
    pc = "received" =>
        /\ Len(buffer) = GetStaticSize
        /\ codecOp.ret2 = GetStaticSize
        /\ codecOp.ret = GetStaticSize
        /\ GetStaticSize = WireSize

HopsEqual(m1, m2, j) ==
    /\ GetLineRate(m1, HopOffset(j)) = GetLineRate(m2, HopOffset(j))
    /\ HopLineRate(m1, HopOffset(j)) = HopLineRate(m2, HopOffset(j))
    /\ GetTime(m1, HopOffset(j)) = GetTime(m2, HopOffset(j))
    /\ GetBytes(m1, HopOffset(j)) = GetBytes(m2, HopOffset(j))
    /\ GetQlen(m1, HopOffset(j)) = GetQlen(m2, HopOffset(j))

\* C6: Serialize followed by Deserialize under the same mode restores every
\* observable field: the maxHop hops and the counter in NORMAL, GetTs() in TS,
\* GetPower() in PINT; in NONE nothing is written or read and the header
\* Deserialize is called on is unchanged.
C6_RoundTrip ==
    pc = "received" =>
        /\ mode = "NORMAL" => /\ \A j \in 0..maxHop - 1 : HopsEqual(rx, hdr, j)
                              /\ Nhop(rx) = Nhop(hdr)
        /\ mode = "TS" => GetTs(rx) = GetTs(hdr)
        /\ mode = "PINT" => GetPower(rx) = GetPower(hdr)
        /\ mode = "NONE" => /\ buffer = <<>>
                            /\ codecOp.ret2 = 0
                            /\ rx = [x \in 1..HeaderBytes |-> codecOp.slot]

\* A NORMAL header pushed past the ring's size arrives in an object whose
\* bytes were all 0xFF.
C6_Witness ==
    /\ pc = "received"
    /\ mode = "NORMAL"
    /\ codecOp.slot = 255
    /\ pushCount = maxHop + 3
    /\ Nhop(rx) = maxHop + 3
    /\ \E j \in 0..maxHop - 1 : GetLineRate(rx, HopOffset(j)) = <<400, 0>>
    /\ \E j \in 0..maxHop - 1 : GetBytes(rx, HopOffset(j)) = 896

SetOffset == HopOffset(codecOp.slot)

\* C7 as stated: after Set, GetBytes() lies in [bytes - byteUnit*multi + 1,
\* bytes] and is a multiple of byteUnit*multi, for any input bytes; likewise
\* GetQlen() for any input qlen.
C7_QuantizationAnyInput ==
    codecOp.op = "Set" =>
        /\ GetBytes(hdr, SetOffset) % (byteUnit * multi) = 0
        /\ codecOp.args.bytes - byteUnit * multi + 1 <= GetBytes(hdr, SetOffset)
        /\ GetBytes(hdr, SetOffset) <= codecOp.args.bytes
        /\ GetQlen(hdr, SetOffset) % (qlenUnit * multi) = 0
        /\ codecOp.args.qlen - qlenUnit * multi + 1 <= GetQlen(hdr, SetOffset)
        /\ GetQlen(hdr, SetOffset) <= codecOp.args.qlen

\* C7 amended: the results are always multiples of the unit, and lie in the
\* interval when the quotient fits the field (bytes < byteUnit*multi*2^20,
\* qlen < qlenUnit*multi*2^17).
C7_QuantizationWithinField ==
    codecOp.op = "Set" =>
        /\ GetBytes(hdr, SetOffset) % (byteUnit * multi) = 0
        /\ codecOp.args.bytes < byteUnit * multi * 2^20 =>
              /\ codecOp.args.bytes - byteUnit * multi + 1 <= GetBytes(hdr, SetOffset)
              /\ GetBytes(hdr, SetOffset) <= codecOp.args.bytes
        /\ GetQlen(hdr, SetOffset) % (qlenUnit * multi) = 0
        /\ codecOp.args.qlen < qlenUnit * multi * 2^17 =>
              /\ codecOp.args.qlen - qlenUnit * multi + 1 <= GetQlen(hdr, SetOffset)
              /\ GetQlen(hdr, SetOffset) <= codecOp.args.qlen

\* Set with multi = 2 and the largest input of the last quantization step
\* that fits the 20-bit field: the result is byteUnit*multi - 1 below it.
C7_Witness ==
    /\ codecOp.op = "Set"
    /\ multi = 2
    /\ codecOp.args.bytes = (2^20 - 1) * 256 + 255
    /\ GetBytes(hdr, SetOffset) = (2^20 - 1) * 256
    /\ GetQlen(hdr, SetOffset) = 3 * 160

\* C8: Set with a supported rate makes GetLineRate() return that rate; Set
\* with any other rate reports an error and leaves GetLineRate() as it was;
\* the rate index of every hop of a freshly constructed header is zero.
C8_RateRoundTrip ==
    /\ codecOp.op = "Set" =>
          IF codecOp.args.rate \in SupportedRates
          THEN /\ GetLineRate(hdr, SetOffset) = codecOp.args.rate
               /\ ~codecOp.err
          ELSE /\ codecOp.err
               /\ GetLineRate(hdr, SetOffset) = codecOp.prevRate
    /\ codecOp.op = "none" =>
          \A j \in 0..maxHop - 1 : HopLineRate(hdr, HopOffset(j)) = 0

\* Set with the unsupported rate 10 Gbps on a hop whose rate was 400 Gbps.
C8_Witness ==
    /\ codecOp.op = "Set"
    /\ codecOp.args.rate = <<10, 0>>
    /\ codecOp.err
    /\ codecOp.prevRate = <<400, 0>>
    /\ GetLineRate(hdr, SetOffset) = <<400, 0>>

SlotHoldsLatestPush(k) ==
    IF pushCount <= k
    THEN /\ ring[k].n = -1
         /\ \A x \in 1..SizeofIntHop : hdr[HopOffset(k) + x] = 0
    ELSE /\ ring[k].n % maxHop = k
         /\ ring[k].n < pushCount
         /\ ring[k].n >= pushCount - maxHop
         /\ HopTime(hdr, HopOffset(k)) = ring[k].sample.time % 2^24
         /\ HopBytes(hdr, HopOffset(k))
                = (ring[k].sample.bytes \div (byteUnit * multi)) % 2^20
         /\ HopQlen(hdr, HopOffset(k))
                = (ring[k].sample.qlen \div (qlenUnit * multi)) % 2^17
         /\ GetLineRate(hdr, HopOffset(k))
                = IF ring[k].rated = <<0, 0>> THEN <<25, 0>> ELSE ring[k].rated

C20_ModeGatedOperations ==
    [][/\ (codecOp'.op = "PushHop" /\ mode # "NORMAL") => hdr' = hdr
       /\ (codecOp'.op = "SetPower" /\ mode # "PINT") => hdr' = hdr
       /\ mode # "TS" => GetTs(hdr') = ZeroU64
       /\ mode # "PINT" => GetPower(hdr') = 0]_vars

\* PushHop in PINT mode on a header whose power value was set: the power is
\* still there, the counter is still 0 and GetTs reads 0 over non-zero bytes.
C20_Witness ==
    /\ mode = "PINT"
    /\ pint_bytes = 2
    /\ codecOp.op = "PushHop"
    /\ GetPower(hdr) = 43981
    /\ LoadU64(hdr, 0) # ZeroU64
    /\ GetTs(hdr) = ZeroU64
    /\ Nhop(hdr) = 0

--------------------------------------------------------------------------
(* Claims about the propagation cache *)

\* The AddPathData calls recorded in added whose path is the unordered pair
\* {a, b} and whose uid is modelUid.
AddedFor(added, a, b, modelUid) ==
    {r \in added : {r.a, r.b} = {a, b} /\ r.modelUid = modelUid}

\* What GetPathData(a, b, modelUid) returns on cache.
LookupIn(cache, a, b, modelUid) ==
    LET it == MapFind(cache, PropagationPathIdentifier(a, b, modelUid))
    IN  IF it = 0 THEN NullData ELSE cache[it].data

Lookup(a, b, modelUid) == LookupIn(m_pathCache, a, b, modelUid)

\* Every pair and uid, in both orientations, is looked up as the history
\* says, and no two entries have the same unordered pair and uid.
CacheAgreesWithHistory ==
    /\ \A a \in MobilityModels, b \in MobilityModels, u \in ModelUids :
          /\ Cardinality(AddedFor(pathAdded, a, b, u)) <= 1
          /\ \A r \in AddedFor(pathAdded, a, b, u) :
                Lookup(a, b, u) = r.data /\ Lookup(b, a, u) = r.data
          /\ AddedFor(pathAdded, a, b, u) = {} =>
                Lookup(a, b, u) = NullData /\ Lookup(b, a, u) = NullData
    /\ \A i \in 1..Len(m_pathCache), j \in 1..Len(m_pathCache) :
          (/\ i # j
           /\ m_pathCache[i].key.m_spectrumModelUid =
                  m_pathCache[j].key.m_spectrumModelUid) =>
              {m_pathCache[i].key.m_srcMobility, m_pathCache[i].key.m_dstMobility} #
              {m_pathCache[j].key.m_srcMobility, m_pathCache[j].key.m_dstMobility}

\* C22: after AddPathData(data, a, b, uid) both GetPathData(a, b, uid) and
\* GetPathData(b, a, uid) return data; GetPathData returns null for an
\* unordered pair and uid never added or added before the last Cleanup;
\* AddPathData for a key present under either orientation violates its
\* assertion; the cache never holds two entries for one unordered pair and uid.
C22_SymmetricPaths ==
    /\ []CacheAgreesWithHistory
    /\ [][/\ cacheOp'.op = "GetPathData" =>
               /\ cacheOp'.ret = Lookup(cacheOp'.a, cacheOp'.b, cacheOp'.modelUid)
               /\ cacheOp'.ret = Lookup(cacheOp'.b, cacheOp'.a, cacheOp'.modelUid)
               /\ UNCHANGED <<m_pathCache, pathAdded>>
          /\ cacheOp'.op = "AddPathData" =>
               IF AddedFor(pathAdded, cacheOp'.a, cacheOp'.b, cacheOp'.modelUid) # {}
               THEN aborted' /\ UNCHANGED <<m_pathCache, pathAdded>>
               ELSE /\ ~aborted'
                    /\ Len(m_pathCache') = Len(m_pathCache) + 1
                    /\ pathAdded' = pathAdded \cup
                           {[a |-> cacheOp'.a, b |-> cacheOp'.b,
                             modelUid |-> cacheOp'.modelUid, data |-> cacheOp'.data]}
          /\ cacheOp'.op = "Cleanup" =>
               /\ m_pathCache' = <<>>
               /\ pathAdded' = {}]_vars

\* p1 was added for the path 2 -> 1 and is returned for the path 1 -> 2,
\* while the same pair under the other uid returns null; the cache holds
\* three entries.
C22_Witness ==
    /\ cacheOp.op = "GetPathData"
    /\ cacheOp.a = 1 /\ cacheOp.b = 2 /\ cacheOp.modelUid = 1
    /\ cacheOp.ret = "p1"
    /\ [a |-> 2, b |-> 1, modelUid |-> 1, data |-> "p1"] \in pathAdded
    /\ Lookup(1, 2, 0) = NullData
    /\ Len(m_pathCache) = 3
    /\ ~aborted

\* AddPathData(p2, 1, 2, uid 1) after AddPathData(p1, 2, 1, uid 1): the
\* assertion failed and the cache still holds p1 only.
DuplicateAddAborted ==
    /\ cacheOp.op = "AddPathData"
    /\ cacheOp.a = 1 /\ cacheOp.b = 2 /\ cacheOp.modelUid = 1 /\ cacheOp.data = "p2"
    /\ aborted
    /\ pathAdded = {[a |-> 2, b |-> 1, modelUid |-> 1, data |-> "p1"]}
    /\ Len(m_pathCache) = 1

==========================================================================
